---- MODULE Spec2Model ----
(***************************************************************************)
(* State-machine model of terraform-provider-jumpserver:                   *)
(*   - provider.go          : JumpServerProvider.Configure, getToken,      *)
(*                            authTransport.RoundTrip,                     *)
(*                            HostSuggestionsDataSource.Read               *)
(*   - resource_assets_host : assetHostResource Create/Read/Update/Delete  *)
(*   - account resource     : accountResource Create/Read/Update/Delete    *)
(*                                                                         *)
(* The provider keeps no resource state of its own: the host runtime hands *)
(* every lifecycle call the prior state of the one object it is about and  *)
(* stores what the call writes back.  A behaviour therefore follows the    *)
(* provider process together with one configuration block (a host, an      *)
(* account, or a host-suggestions data source).                            *)
(***************************************************************************)
EXTENDS Integers, Sequences, FiniteSets, TLC

VARIABLES
    block,         \* kind of configuration block the runtime reconciles
    configured,    \* "no" | "ok" | "failed": outcome of JumpServerProvider.Configure
    client,        \* *http.Client handed to resources (resp.ResourceData / DataSourceData)
    hostState,     \* stored state of the asset host (JumpServerHostResourceModel)
    accountState,  \* stored state of the account (JumpServerAccountModel)
    dsState,       \* state written by the last data source Read
    lastOp,        \* name of the last lifecycle call
    lastIn,        \* its input (provider config, plan, or data source config)
    lastResp,      \* the server's answer to the request it sent (if any)
    diags,         \* resp.Diagnostics of the last call (sequence of errors)
    wire,          \* requests the last call put on the network, in order
    tokenReads,    \* who read authTransport.Token during the last call
    hostCreated,   \* history: a Host Create succeeded and no Host Delete since
    createdID,     \* history: identifier stored by the last successful Host Create
    pc,            \* position of each concurrently served instance within its call
    inflight       \* the request each such instance is building or has sent

vars == <<block, configured, client, hostState, accountState, dsState, lastOp,
          lastIn, lastResp, diags, wire, tokenReads, hostCreated, createdID, pc, inflight>>

----------------------------------------------------------------------------
(* Bounds of the model *)

MaxAssets == 2      \* longest planned assets list of an account
MaxItems == 2       \* longest JSON array in a response

----------------------------------------------------------------------------
(* HTTP status codes used by the code (net/http constants) *)

StatusOK == 200
StatusCreated == 201
StatusNoContent == 204

Statuses == {200, 201, 204, 404, 500}

----------------------------------------------------------------------------
(* Loosely typed JSON: a field of a decoded map[string]interface{} *)

JSONKeys == {"id", "name", "ip", "platform", "state", "token"}

JAbsent == [t |-> "absent", v |-> ""]
JNull == [t |-> "null", v |-> ""]
JNum == [t |-> "number", v |-> "7"]
JStr(s) == [t |-> "string", v |-> s]

NoFields == [n \in JSONKeys |-> JAbsent]

\* v, ok := m[key].(string)
IsString(m, key) == m[key].t = "string"

\* A response body as bytes: not JSON at all, or a JSON null, object or array.
EmptyItems == << >>
BodyInvalid == [k |-> "invalid", obj |-> NoFields, items |-> EmptyItems]
BodyNull == [k |-> "null", obj |-> NoFields, items |-> EmptyItems]
BodyObject(o) == [k |-> "object", obj |-> o, items |-> EmptyItems]
BodyArray(s) == [k |-> "array", obj |-> NoFields, items |-> s]
NoBody == [k |-> "none", obj |-> NoFields, items |-> EmptyItems]

\* An element of a JSON array: an object, a string, or null.
ItemObject(o) == [k |-> "object", obj |-> o]
ItemString == [k |-> "string", obj |-> NoFields]
ItemNull == [k |-> "null", obj |-> NoFields]

\* json.NewDecoder(body).Decode(&result) with result map[string]interface{}:
\* a JSON null leaves the map nil (every lookup misses), anything that is
\* not an object is an error.
DecodeMap(body) ==
    IF body.k = "object" THEN [ok |-> TRUE, m |-> body.obj]
    ELSE IF body.k = "null" THEN [ok |-> TRUE, m |-> NoFields]
    ELSE [ok |-> FALSE, m |-> NoFields]

\* A server answer: a network failure, or a status with a body.
NetErr == [err |-> TRUE, status |-> 0, body |-> NoBody]
Answer(s, b) == [err |-> FALSE, status |-> s, body |-> b]
NoResp == [err |-> FALSE, status |-> 0, body |-> NoBody]

----------------------------------------------------------------------------
(* Diagnostics *)

Diag(summary, status, body) == [summary |-> summary, status |-> status, body |-> body]
Err(summary) == Diag(summary, 0, NoBody)
HasError(d) == Len(d) > 0

----------------------------------------------------------------------------
(* Requests and transports *)

HeaderNames == {"Authorization", "Content-Type", "accept"}
NoHeader == [h \in HeaderNames |-> << >>]

\* http.Header.Set: replaces whatever values the key had by the single value.
HeaderSet(header, key, value) == [header EXCEPT ![key] = <<value>>]

\* "Bearer " + token
Bearer(token) == <<"Bearer ", token>>

\* A request about to be sent; via lists the round trippers it passed.
Request(method, url, header, body) ==
    [method |-> method, url |-> url, header |-> header, body |-> body, via |-> << >>]

\* http.DefaultTransport: puts the request on the network as it is.
DefaultTransport_RoundTrip(req) == [req EXCEPT !.via = Append(@, "DefaultTransport")]

\* authTransport.RoundTrip: sets the Authorization header, then delegates.
authTransport_RoundTripAdd(t, req) ==
    DefaultTransport_RoundTrip(
        [req EXCEPT !.header["Authorization"] = Append(@, Bearer(t.Token)),
                    !.via = Append(@, "authTransport")])

authTransport_RoundTrip(t, req) ==
    DefaultTransport_RoundTrip(
        [req EXCEPT !.header = HeaderSet(@, "Authorization", Bearer(t.Token)),
                    !.via = Append(@, "authTransport")])

\* client.Do(req) for the client Configure built (Transport: &authTransport{...})
SharedClient_Do(c, req) == authTransport_RoundTrip(c.Transport, req)

\* client := &http.Client{}; client.Do(req): no Transport set, so the default one
FreshClient_Do(req) == DefaultTransport_RoundTrip(req)

\* The resource and data source instances the runtime may serve at the same
\* time; all of them hold the *http.Client Configure handed out.
Instances == {"host_a", "host_b", "account_a", "query_a"}
KindOf(i) ==
    CASE i \in {"host_a", "host_b"} -> "asset_host"
      [] i = "account_a" -> "account"
      [] OTHER -> "host_suggestions"

NoRequest == Request("", << >>, NoHeader, NoBody)
Idle == [i \in Instances |-> "idle"]
NoRequests == [i \in Instances |-> NoRequest]

----------------------------------------------------------------------------
(* Typed attribute values of the plugin framework (types.String, types.Int64,
   types.List): null, unknown or known *)

TNull == [s |-> "null", v |-> ""]
TUnknown == [s |-> "unknown", v |-> ""]
TStr(x) == [s |-> "known", v |-> x]
IsNull(a) == a.s = "null"
ValueString(a) == IF a.s = "known" THEN a.v ELSE ""

I64Null == [s |-> "null", n |-> 0]
I64(x) == [s |-> "known", n |-> x]
ValueInt64(a) == IF a.s = "known" THEN a.n ELSE 0

ListNull == [s |-> "null", elems |-> << >>]
ListOf(q) == [s |-> "known", elems |-> q]
Elements(l) == l.elems

----------------------------------------------------------------------------
(* Provider configuration: JumpServerProvider.Configure and getToken *)

BaseURLs == {"https://js.example.com", "http://172.30.9.65"}
Tokens == {"tok-A", "tok-B"}

ProviderConfigs ==
    [BaseURL : {TNull, TStr("")} \cup {TStr(b) : b \in BaseURLs},
     Username : {TNull, TStr("admin")},
     Password : {TNull, TStr("secret")},
     Token : {TNull, TStr("cfg-token")}]

\* JUMP_SERVER_BASE_URL, JUMP_SERVER_USERNAME, JUMP_SERVER_PASSWORD
Environments ==
    [base : {"", "https://js.example.com"}, user : {"", "envuser"}, pass : {"", "envpass"}]

AuthAnswers ==
    {NetErr, Answer(200, BodyInvalid), Answer(200, BodyNull), Answer(200, BodyArray(<< >>)),
     Answer(200, BodyObject(NoFields)),
     Answer(200, BodyObject([NoFields EXCEPT !["token"] = JNum]))}
    \cup {Answer(st, BodyObject([NoFields EXCEPT !["token"] = JStr(tk)])) :
            st \in {200, 404}, tk \in Tokens}

\* The request http.Post(url, "application/json", body) sends.
getTokenRequest(baseURL, username, password) ==
    DefaultTransport_RoundTrip(
        Request("POST", <<baseURL, "/api/v1/authentication/auth/">>,
                HeaderSet(NoHeader, "Content-Type", "application/json"),
                [k |-> "credentials", username |-> username, password |-> password]))

\* getToken's return values (token, err) for the server's answer.
getTokenChecked(resp) ==
    IF resp.err THEN [err |-> TRUE, token |-> "", msg |-> "post failed"]
    ELSE IF resp.status # StatusOK THEN [err |-> TRUE, token |-> "", msg |-> "bad status"]
    ELSE LET d == DecodeMap(resp.body) IN
         IF ~d.ok THEN [err |-> TRUE, token |-> "", msg |-> "decode failed"]
         ELSE IF IsString(d.m, "token")
              THEN [err |-> FALSE, token |-> d.m["token"].v, msg |-> ""]
              ELSE [err |-> TRUE, token |-> "", msg |-> "unable to fetch token"]

getToken(resp) ==
    IF resp.err THEN [err |-> TRUE, token |-> "", msg |-> "post failed"]
    ELSE LET d == DecodeMap(resp.body) IN
         IF ~d.ok THEN [err |-> TRUE, token |-> "", msg |-> "decode failed"]
         ELSE IF IsString(d.m, "token")
              THEN [err |-> FALSE, token |-> d.m["token"].v, msg |-> ""]
              ELSE [err |-> TRUE, token |-> "", msg |-> "unable to fetch token"]

NilClient == [nil |-> TRUE, Transport |-> [Token |-> "", BaseURL |-> ""]]
NewClientConfigured(token, baseURL) ==
    [nil |-> FALSE, Transport |-> [Token |-> "cfg-token", BaseURL |-> baseURL]]

NewClient(token, baseURL) ==
    [nil |-> FALSE, Transport |-> [Token |-> token, BaseURL |-> baseURL]]

\* The diagnostics Configure adds for empty connection parameters.
MissingParamsFirstOnly(baseURL, username, password) ==
    IF baseURL = "" THEN <<Err("Missing JumpServer API Base URL")>>
    ELSE IF username = "" THEN <<Err("Missing JumpServer API Username")>>
    ELSE IF password = "" THEN <<Err("Missing JumpServer API Password")>>
    ELSE << >>

MissingParams(baseURL, username, password) ==
    (IF baseURL = "" THEN <<Err("Missing JumpServer API Base URL")>> ELSE << >>)
    \o (IF username = "" THEN <<Err("Missing JumpServer API Username")>> ELSE << >>)
    \o (IF password = "" THEN <<Err("Missing JumpServer API Password")>> ELSE << >>)

JumpServerProvider_Configure ==
    /\ configured = "no"
    /\ \E data \in ProviderConfigs, env \in Environments, resp \in AuthAnswers :
         LET baseURL == IF ~IsNull(data.BaseURL) THEN ValueString(data.BaseURL) ELSE env.base
             username == IF ~IsNull(data.Username) THEN ValueString(data.Username) ELSE env.user
             password == IF ~IsNull(data.Password) THEN ValueString(data.Password) ELSE env.pass
             missing == MissingParams(baseURL, username, password)
             got == getToken(resp)
         IN /\ lastOp' = "Configure"
            /\ lastIn' = [data |-> data, env |-> env]
            /\ tokenReads' = {}
            /\ IF HasError(missing)
               THEN /\ diags' = missing
                    /\ wire' = << >>
                    /\ lastResp' = NoResp
                    /\ configured' = "failed"
                    /\ client' = NilClient
               ELSE /\ wire' = <<getTokenRequest(baseURL, username, password)>>
                    /\ lastResp' = resp
                    /\ IF got.err
                       THEN /\ diags' = <<Err("Unable to authenticate with JumpServer API")>>
                            /\ configured' = "failed"
                            /\ client' = NilClient
                       ELSE /\ diags' = << >>
                            /\ configured' = "ok"
                            /\ client' = NewClient(got.token, baseURL)
    /\ UNCHANGED <<pc, inflight, block, hostState, accountState, dsState, hostCreated, createdID>>

----------------------------------------------------------------------------
(* Asset host resource (resource_assets_host.go) *)

Protocol(name, port) == [name |-> TStr(name), port |-> port]

\* A plan for a new host: the identifier is computed, hence unknown.
HostPlan(nodes, protos) ==
    [ID |-> TUnknown, Name |-> TStr("web-1"), IP |-> TStr("10.0.0.5"),
     Platform |-> TStr("Linux"),
     NodesDisplay |-> ListOf([i \in 1..Len(nodes) |-> TStr(nodes[i])]),
     Protocols |-> ListOf(protos)]

\* The plan of the end-to-end scenario, and plans with empty lists, with two
\* elements in either order, and with a protocol that has no port.
ScenarioPlan == HostPlan(<<"/Default">>, <<Protocol("ssh", I64(22))>>)

HostPlans ==
    {ScenarioPlan,
     HostPlan(<< >>, << >>),
     HostPlan(<<"/Default">>, <<Protocol("ssh", I64Null)>>),
     HostPlan(<<"/Default", "/Prod">>, <<Protocol("ssh", I64(22)), Protocol("rdp", I64(3389))>>),
     HostPlan(<<"/Prod", "/Default">>, <<Protocol("rdp", I64(3389)), Protocol("ssh", I64Null)>>)}

\* No stored state (resource absent), and a stored model.
NullHostState ==
    [present |-> FALSE, ID |-> TNull, Name |-> TNull, IP |-> TNull, Platform |-> TNull,
     NodesDisplay |-> ListNull, Protocols |-> ListNull]
HostStateOf(m) ==
    [present |-> TRUE, ID |-> m.ID, Name |-> m.Name, IP |-> m.IP, Platform |-> m.Platform,
     NodesDisplay |-> m.NodesDisplay, Protocols |-> m.Protocols]

\* A Go slice marshalled by encoding/json: a nil slice becomes null.
GoSlice(q) == [nil |-> q = << >>, items |-> q]

\* protocol := map{"name": ...}; if portOk { protocol["port"] = ...ValueInt64() }
\* portOk is the presence of the "port" key among the object's attributes,
\* which the schema declares for every protocol object.
ProtocolJSON(p) == [name |-> ValueString(p.name), hasPort |-> TRUE, port |-> ValueInt64(p.port)]

\* nodesDisplay = append(nodesDisplay, node.ValueString())
NodeString(n) == ValueString(n)

HostPayload(plan) ==
    [name |-> ValueString(plan.Name),
     address |-> ValueString(plan.IP),
     platform |-> ValueString(plan.Platform),
     nodes_display |->
         IF IsNull(plan.NodesDisplay) THEN GoSlice(<< >>)
         ELSE GoSlice([i \in 1..Len(Elements(plan.NodesDisplay)) |->
                          NodeString(Elements(plan.NodesDisplay)[i])]),
     protocols |->
         GoSlice([i \in 1..Len(Elements(plan.Protocols)) |->
                     ProtocolJSON(Elements(plan.Protocols)[i])]),
     is_active |-> TRUE]

HostIDs == {"", "h-1", "h-2"}


ErrorBodies == {BodyInvalid, BodyObject([NoFields EXCEPT !["id"] = JStr("h-1")])}

HostCreateBodies ==
    {BodyInvalid, BodyNull, BodyArray(<< >>), BodyObject(NoFields),
     BodyObject([NoFields EXCEPT !["id"] = JNum]),
     BodyObject([NoFields EXCEPT !["id"] = JNull]),
     BodyObject([NoFields EXCEPT !["name"] = JStr("h-1")]),
     BodyObject([NoFields EXCEPT !["id"] = JStr("h-2"), !["name"] = JStr("web-1")])}
    \cup {BodyObject([NoFields EXCEPT !["id"] = JStr(i)]) : i \in HostIDs}

HostCreateAnswers ==
    {NetErr} \cup {Answer(StatusCreated, b) : b \in HostCreateBodies}
    \cup {Answer(st, b) : st \in Statuses \ {StatusCreated}, b \in ErrorBodies}

\* The scenario plan meets every answer, the other plans the answers that
\* differ in the identifier and one failure.
HostCreateAnswersFor(plan) ==
    IF plan = ScenarioPlan THEN HostCreateAnswers
    ELSE {Answer(StatusCreated, BodyObject([NoFields EXCEPT !["id"] = JStr(i)])) : i \in HostIDs}
         \cup {Answer(500, BodyInvalid)}

\* The request a host call builds: the controller sets the bearer header itself
\* from r.client.Transport.(*authTransport).Token.
HostHeaderNoAuth(c, contentHeader) == HeaderSet(NoHeader, contentHeader[1], contentHeader[2])

HostHeader(c, contentHeader) ==
    HeaderSet(HeaderSet(NoHeader, contentHeader[1], contentHeader[2]),
              "Authorization", Bearer(c.Transport.Token))

HostCreateRequest(c, plan) ==
    Request("POST", <<c.Transport.BaseURL, "/api/v1/assets/hosts/">>,
            HostHeader(c, <<"Content-Type", "application/json">>), HostPayload(plan))

\* if respBody.StatusCode != http.StatusCreated { error }
CreateStatusOKLoose(status) == status \in {StatusOK, StatusCreated}

CreateStatusOK(status) == status = StatusCreated

\* if id, ok := result["id"].(string); ok { plan.ID = id } else { error }
ExtractIDLenient(m) == [ok |-> TRUE, id |-> IF IsString(m, "id") THEN m["id"].v ELSE ""]

ExtractIDFromName(m) == [ok |-> IsString(m, "id") \/ IsString(m, "name"),
                         id |-> IF IsString(m, "name") THEN m["name"].v
                                ELSE IF IsString(m, "id") THEN m["id"].v ELSE ""]

ExtractID(m) == [ok |-> IsString(m, "id"), id |-> IF IsString(m, "id") THEN m["id"].v ELSE ""]

\* What Create leaves in resp.Diagnostics and resp.State (null unless Set).
HostCreateOutcome(plan, resp) ==
    IF resp.err
    THEN [diags |-> <<Err("HTTP Request Error")>>, state |-> NullHostState]
    ELSE IF ~CreateStatusOK(resp.status)
    THEN [diags |-> <<Diag("HTTP Status Error", resp.status, resp.body)>>,
          state |-> NullHostState]
    ELSE LET d == DecodeMap(resp.body) IN
         IF ~d.ok
         THEN [diags |-> <<Err("Response Decode Error")>>, state |-> NullHostState]
         ELSE LET x == ExtractID(d.m) IN
              IF ~x.ok
              THEN [diags |-> <<Err("API Error")>>, state |-> NullHostState]
              ELSE [diags |-> << >>,
                    state |-> HostStateOf([plan EXCEPT !.ID = TStr(x.id)])]

assetHostResource_Create ==
    /\ block = "asset_host"
    /\ configured = "ok"
    /\ ~hostState.present
    /\ \E plan \in HostPlans : \E resp \in HostCreateAnswersFor(plan) :
         LET out == HostCreateOutcome(plan, resp) IN
         /\ lastOp' = "HostCreate"
         /\ lastIn' = plan
         /\ wire' = <<FreshClient_Do(HostCreateRequest(client, plan))>>
         /\ tokenReads' = {"assetHostResource"}
         /\ lastResp' = resp
         /\ diags' = out.diags
         /\ hostState' = out.state
         /\ hostCreated' = IF HasError(out.diags) THEN hostCreated ELSE TRUE
         /\ createdID' = IF HasError(out.diags) THEN createdID ELSE out.state.ID
    /\ UNCHANGED <<pc, inflight, block, configured, client, accountState, dsState>>

\* Host Read ---------------------------------------------------------------

\* Bodies of a 200 answer: every field absent, one field present (as a string
\* or as a number), all three present.
HostReadObjects ==
    {NoFields,
     [NoFields EXCEPT !["name"] = JStr("web-2")],
     [NoFields EXCEPT !["name"] = JNum],
     [NoFields EXCEPT !["ip"] = JStr("10.0.0.9")],
     [NoFields EXCEPT !["ip"] = JNum],
     [NoFields EXCEPT !["platform"] = JStr("Windows")],
     [NoFields EXCEPT !["platform"] = JNull],
     [NoFields EXCEPT !["name"] = JStr("web-2"), !["ip"] = JStr("10.0.0.9"),
                      !["platform"] = JStr("Windows"), !["id"] = JStr("h-9")]}

HostReadBodies == {BodyInvalid, BodyNull, BodyArray(<< >>)} \cup {BodyObject(o) : o \in HostReadObjects}

HostReadAnswers ==
    {NetErr} \cup {Answer(StatusOK, b) : b \in HostReadBodies}
    \cup {Answer(st, b) : st \in Statuses \ {StatusOK}, b \in ErrorBodies}

HostItemURL(c, id) == <<c.Transport.BaseURL, "/api/v1/assets/hosts/", id, "/">>

HostReadRequest(c, state) ==
    Request("GET", HostItemURL(c, ValueString(state.ID)),
            HostHeader(c, <<"accept", "application/json">>), NoBody)

\* if v, ok := result[key].(string); ok { state.X = v }
MergeFieldClearing(old, m, key) == IF IsString(m, key) THEN TStr(m[key].v) ELSE TNull

MergeField(old, m, key) == IF IsString(m, key) THEN TStr(m[key].v) ELSE old

HostReadMerge(state, m) ==
    [state EXCEPT !.Name = MergeField(@, m, "name"),
                  !.IP = MergeField(@, m, "ip"),
                  !.Platform = MergeField(@, m, "platform")]

\* resp.State starts as the prior state and changes only by State.Set.
HostReadOutcomeRemoving(state, resp) ==
    IF resp.err
    THEN [diags |-> <<Err("HTTP Request Error")>>, state |-> state]
    ELSE IF resp.status = 404
    THEN [diags |-> << >>, state |-> NullHostState]
    ELSE IF resp.status # StatusOK
    THEN [diags |-> <<Diag("API Error", resp.status, resp.body)>>, state |-> state]
    ELSE LET d == DecodeMap(resp.body) IN
         IF ~d.ok
         THEN [diags |-> <<Err("JSON Decode Error")>>, state |-> state]
         ELSE [diags |-> << >>, state |-> HostReadMerge(state, d.m)]

HostReadOutcome(state, resp) ==
    IF resp.err
    THEN [diags |-> <<Err("HTTP Request Error")>>, state |-> state]
    ELSE IF resp.status # StatusOK
    THEN [diags |-> <<Diag("API Error", resp.status, resp.body)>>, state |-> state]
    ELSE LET d == DecodeMap(resp.body) IN
         IF ~d.ok
         THEN [diags |-> <<Err("JSON Decode Error")>>, state |-> state]
         ELSE [diags |-> << >>, state |-> HostReadMerge(state, d.m)]

assetHostResource_Read ==
    /\ block = "asset_host"
    /\ configured = "ok"
    /\ hostState.present
    /\ \E resp \in HostReadAnswers :
         LET out == HostReadOutcome(hostState, resp) IN
         /\ lastOp' = "HostRead"
         /\ lastIn' = NoBody
         /\ wire' = <<FreshClient_Do(HostReadRequest(client, hostState))>>
         /\ tokenReads' = {"assetHostResource"}
         /\ lastResp' = resp
         /\ diags' = out.diags
         /\ hostState' = out.state
    /\ UNCHANGED <<pc, inflight, block, configured, client, accountState, dsState, hostCreated, createdID>>

\* Host Update: the method body is empty -----------------------------------

assetHostResource_UpdateApplied ==
    /\ block = "asset_host"
    /\ configured = "ok"
    /\ hostState.present
    /\ \E plan \in HostPlans :
         /\ lastOp' = "HostUpdate"
         /\ lastIn' = [plan EXCEPT !.ID = hostState.ID]
         /\ wire' = <<FreshClient_Do(Request("PUT", HostItemURL(client, ValueString(hostState.ID)),
                                             HostHeader(client, <<"Content-Type", "application/json">>),
                                             HostPayload(plan)))>>
         /\ hostState' = HostStateOf([plan EXCEPT !.ID = hostState.ID])
    /\ tokenReads' = {"assetHostResource"}
    /\ lastResp' = NoResp
    /\ diags' = << >>
    /\ UNCHANGED <<pc, inflight, block, configured, client, accountState, dsState, hostCreated, createdID>>

assetHostResource_Update ==
    /\ block = "asset_host"
    /\ configured = "ok"
    /\ hostState.present
    /\ \E plan \in HostPlans :
         /\ lastOp' = "HostUpdate"
         /\ lastIn' = [plan EXCEPT !.ID = hostState.ID]
    /\ wire' = << >>
    /\ tokenReads' = {}
    /\ lastResp' = NoResp
    /\ diags' = << >>
    /\ UNCHANGED <<pc, inflight, block, configured, client, hostState, accountState, dsState,
                   hostCreated, createdID>>

\* Host Delete -------------------------------------------------------------

HostDeleteAnswers ==
    {NetErr} \cup {Answer(st, BodyInvalid) : st \in Statuses}
    \cup {Answer(404, BodyObject(NoFields))}

HostDeleteRequest(c, id) ==
    Request("DELETE", HostItemURL(c, id), HostHeader(c, <<"accept", "application/json">>), NoBody)

\* if StatusCode != http.StatusNoContent && StatusCode != http.StatusOK { error }
DeleteStatusOKStrict(status) == status = StatusNoContent

DeleteStatusOK(status) == ~(status # StatusNoContent /\ status # StatusOK)

HostDeleteOutcome(state, resp) ==
    IF resp.err
    THEN [diags |-> <<Err("HTTP Request Error")>>, state |-> state]
    ELSE IF ~DeleteStatusOK(resp.status)
    THEN [diags |-> <<Diag("API Error", resp.status, resp.body)>>, state |-> state]
    ELSE [diags |-> << >>, state |-> NullHostState]

assetHostResource_DeleteRetrying ==
    /\ block = "asset_host"
    /\ configured = "ok"
    /\ hostState.present
    /\ lastOp' = "HostDelete"
    /\ lastIn' = NoBody
    /\ LET id == ValueString(hostState.ID) IN
       IF id = ""
       THEN /\ diags' = <<Err("Missing ID")>>
            /\ wire' = << >>
            /\ tokenReads' = {}
            /\ lastResp' = NoResp
            /\ UNCHANGED <<hostState, hostCreated>>
       ELSE \E resp \in HostDeleteAnswers :
              LET out == HostDeleteOutcome(hostState, resp)
                  sent == FreshClient_Do(HostDeleteRequest(client, id))
              IN /\ wire' = IF HasError(out.diags) THEN <<sent, sent>> ELSE <<sent>>
                 /\ tokenReads' = {"assetHostResource"}
                 /\ lastResp' = resp
                 /\ diags' = out.diags
                 /\ hostState' = out.state
                 /\ hostCreated' = IF HasError(out.diags) THEN hostCreated ELSE FALSE
    /\ UNCHANGED <<pc, inflight, block, configured, client, accountState, dsState, createdID>>

assetHostResource_DeleteUnguarded ==
    /\ block = "asset_host"
    /\ configured = "ok"
    /\ hostState.present
    /\ lastOp' = "HostDelete"
    /\ lastIn' = NoBody
    /\ \E resp \in HostDeleteAnswers :
         LET out == HostDeleteOutcome(hostState, resp) IN
         /\ wire' = <<FreshClient_Do(HostDeleteRequest(client, ValueString(hostState.ID)))>>
         /\ tokenReads' = {"assetHostResource"}
         /\ lastResp' = resp
         /\ diags' = out.diags
         /\ hostState' = out.state
         /\ hostCreated' = IF HasError(out.diags) THEN hostCreated ELSE FALSE
    /\ UNCHANGED <<pc, inflight, block, configured, client, accountState, dsState, createdID>>

assetHostResource_Delete ==
    /\ block = "asset_host"
    /\ configured = "ok"
    /\ hostState.present
    /\ lastOp' = "HostDelete"
    /\ lastIn' = NoBody
    /\ LET id == ValueString(hostState.ID) IN
       IF id = ""
       THEN /\ diags' = <<Err("Missing ID")>>
            /\ wire' = << >>
            /\ tokenReads' = {}
            /\ lastResp' = NoResp
            /\ UNCHANGED <<hostState, hostCreated>>
       ELSE \E resp \in HostDeleteAnswers :
              LET out == HostDeleteOutcome(hostState, resp) IN
              /\ wire' = <<FreshClient_Do(HostDeleteRequest(client, id))>>
              /\ tokenReads' = {"assetHostResource"}
              /\ lastResp' = resp
              /\ diags' = out.diags
              /\ hostState' = out.state
              /\ hostCreated' = IF HasError(out.diags) THEN hostCreated ELSE FALSE
    /\ UNCHANGED <<pc, inflight, block, configured, client, accountState, dsState, createdID>>

----------------------------------------------------------------------------
(* Account resource *)

\* Text is a sequence of symbols: DQ is the straight double quote, LQ and RQ the
\* curly double quotes, BS the backslash, U a run of characters that
\* uuid.Parse accepts, X any other run of characters.
AStr(q) == [s |-> "known", v |-> q]
ANull == [s |-> "null", v |-> << >>]

AssetValues ==
    {AStr(<<"U">>), AStr(<<"X">>), AStr(<<"LQ", "U", "RQ">>), AStr(<<"DQ", "U", "DQ">>), ANull}

RECURSIVE SeqsUpTo(_, _)
SeqsUpTo(S, n) ==
    IF n = 0 THEN {<< >>}
    ELSE LET shorter == SeqsUpTo(S, n - 1) IN
         shorter \cup {Append(q, x) : q \in shorter, x \in S}

AccountPlans ==
    [Name : {"ops"}, Username : {"root"}, Privileged : {FALSE}, Is_active : {TRUE},
     Assets : {ListOf(q) : q \in SeqsUpTo(AssetValues, MaxAssets)}]

NullAccountState ==
    [present |-> FALSE, Name |-> "", Username |-> "", Privileged |-> FALSE,
     Is_active |-> FALSE, Assets |-> ListNull]
AccountStateOf(m) ==
    [present |-> TRUE, Name |-> m.Name, Username |-> m.Username, Privileged |-> m.Privileged,
     Is_active |-> m.Is_active, Assets |-> m.Assets]

\* strconv.Quote as used by %q: escapes the straight quote and the backslash.
QuoteSymbol(c) == IF c = "DQ" THEN <<"BS", "DQ">> ELSE IF c = "BS" THEN <<"BS", "BS">> ELSE <<c>>

RECURSIVE Flatten(_)
Flatten(qq) == IF qq = << >> THEN << >> ELSE Head(qq) \o Flatten(Tail(qq))

\* attr.Value.String() of a types.String: "<null>" for null, else the %q form.
AssetString(a) ==
    IF a.s = "null" THEN <<"X">>
    ELSE <<"DQ">> \o Flatten([i \in 1..Len(a.v) |-> QuoteSymbol(a.v[i])]) \o <<"DQ">>

\* the cutset of strings.Trim: curly and straight double quotes
CutsetStraight == {"DQ"}

Cutset == {"LQ", "RQ", "DQ"}

RECURSIVE TrimLeft(_, _)
TrimLeft(q, cut) == IF q # << >> /\ Head(q) \in cut THEN TrimLeft(Tail(q), cut) ELSE q

RECURSIVE TrimRight(_, _)
TrimRight(q, cut) ==
    IF q # << >> /\ q[Len(q)] \in cut THEN TrimRight(SubSeq(q, 1, Len(q) - 1), cut) ELSE q

\* strings.Trim(s, cutset)
Trim(q, cut) == TrimRight(TrimLeft(q, cut), cut)

\* _, err := uuid.Parse(s); err == nil
uuidParse(q) == q = <<"U">>

\* assetStr of the loop body, for one element
TrimmedAsset(a) == Trim(AssetString(a), Cutset)

\* The validation loop: the first element that does not parse ends the call.
RECURSIVE ValidateAssets(_)
ValidateAssets(q) ==
    IF q = << >> THEN [ok |-> TRUE, valid |-> << >>, bad |-> << >>]
    ELSE LET assetStr == TrimmedAsset(Head(q)) IN
         IF ~uuidParse(assetStr)
         THEN [ok |-> FALSE, valid |-> << >>, bad |-> assetStr]
         ELSE LET rest == ValidateAssets(Tail(q)) IN
              [ok |-> rest.ok,
               valid |-> IF rest.ok THEN <<assetStr>> \o rest.valid ELSE << >>,
               bad |-> rest.bad]

AccountPayload(plan, validAssets) ==
    [name |-> plan.Name, username |-> plan.Username, privileged |-> plan.Privileged,
     is_active |-> plan.Is_active, assets |-> GoSlice(validAssets)]

\* url := "http://172.30.9.65/api/v1/accounts/accounts/bulk/"
AccountURL(c) == <<"http://172.30.9.65", "/api/v1/accounts/accounts/bulk/">>

AccountCreateRequest(c, plan, validAssets) ==
    Request("POST", AccountURL(c), HeaderSet(NoHeader, "Content-Type", "application/json"),
            AccountPayload(plan, validAssets))

Entry(v) == ItemObject([NoFields EXCEPT !["state"] = v])

AccountItems == {Entry(JStr("created")), Entry(JStr("exists")), ItemNull}

AccountAnswers ==
    {NetErr, Answer(StatusOK, BodyInvalid), Answer(StatusOK, BodyNull),
     Answer(StatusOK, BodyObject(NoFields)), Answer(StatusOK, BodyArray(<<ItemString>>)),
     Answer(StatusOK, BodyArray(<<Entry(JAbsent)>>)), Answer(StatusOK, BodyArray(<<Entry(JNum)>>)),
     Answer(StatusOK, BodyArray(<<Entry(JStr("created")), ItemString>>))}
    \cup {Answer(StatusOK, BodyArray(q)) : q \in SeqsUpTo(AccountItems, MaxItems)}
    \cup {Answer(st, BodyArray(<<Entry(JStr("created"))>>)) : st \in Statuses \ {StatusOK}}

\* Plans of at most one asset meet every answer, longer ones a few.
AccountAnswersFor(plan) ==
    IF Len(Elements(plan.Assets)) <= 1 THEN AccountAnswers
    ELSE {NetErr, Answer(StatusOK, BodyArray(<<Entry(JStr("created"))>>)),
          Answer(StatusOK, BodyArray(<<Entry(JStr("exists"))>>)), Answer(500, BodyInvalid)}

\* Decode(&apiResponse) with apiResponse []map[string]interface{}: a JSON null
\* leaves the slice nil, a null element leaves a nil map.
DecodeMaps(body) ==
    IF body.k = "null" THEN [ok |-> TRUE, maps |-> << >>]
    ELSE IF body.k = "array" /\ \A i \in 1..Len(body.items) : body.items[i].k \in {"object", "null"}
    THEN [ok |-> TRUE, maps |-> [i \in 1..Len(body.items) |-> body.items[i].obj]]
    ELSE [ok |-> FALSE, maps |-> << >>]

\* if len(apiResponse) > 0 { state of apiResponse[0] must be "created" }
EntriesAllCreated(maps) ==
    \A i \in 1..Len(maps) : IsString(maps[i], "state") /\ maps[i]["state"].v = "created"

EntriesRequiredAndCreated(maps) ==
    Len(maps) > 0 /\ IsString(maps[1], "state") /\ maps[1]["state"].v = "created"

EntriesCreated(maps) ==
    Len(maps) > 0 => (IsString(maps[1], "state") /\ maps[1]["state"].v = "created")

AccountCreateOutcome(plan, resp) ==
    IF resp.err
    THEN [diags |-> <<Err("Error sending HTTP request")>>, state |-> NullAccountState]
    ELSE IF resp.status # StatusOK
    THEN [diags |-> <<Diag("API Error", resp.status, resp.body)>>, state |-> NullAccountState]
    ELSE LET d == DecodeMaps(resp.body) IN
         IF ~d.ok
         THEN [diags |-> <<Err("Error decoding API response")>>, state |-> NullAccountState]
         ELSE IF ~EntriesCreated(d.maps)
         THEN [diags |-> <<Err("Invalid API response")>>, state |-> NullAccountState]
         ELSE [diags |-> << >>, state |-> AccountStateOf(plan)]

accountResource_Create ==
    /\ block = "account"
    /\ configured = "ok"
    /\ ~accountState.present
    /\ \E plan \in AccountPlans :
         LET checked == ValidateAssets(Elements(plan.Assets)) IN
         /\ lastOp' = "AccountCreate"
         /\ lastIn' = plan
         /\ IF ~checked.ok
            THEN /\ diags' = <<Diag("Invalid UUID", 0, [k |-> "text", text |-> checked.bad])>>
                 /\ wire' = << >>
                 /\ tokenReads' = {}
                 /\ lastResp' = NoResp
                 /\ accountState' = NullAccountState
            ELSE \E resp \in AccountAnswersFor(plan) :
                   LET out == AccountCreateOutcome(plan, resp) IN
                   /\ wire' = <<SharedClient_Do(client, AccountCreateRequest(client, plan, checked.valid))>>
                   /\ tokenReads' = {"authTransport"}
                   /\ lastResp' = resp
                   /\ diags' = out.diags
                   /\ accountState' = out.state
    /\ UNCHANGED <<pc, inflight, block, configured, client, hostState, dsState, hostCreated, createdID>>

\* Read, Update and Delete have empty bodies.  After a Delete that reports no
\* error the runtime drops the stored state.
accountResource_Read ==
    /\ block = "account" /\ configured = "ok" /\ accountState.present
    /\ lastOp' = "AccountRead"
    /\ lastIn' = NoBody
    /\ wire' = << >> /\ tokenReads' = {} /\ lastResp' = NoResp /\ diags' = << >>
    /\ UNCHANGED <<pc, inflight, block, configured, client, hostState, accountState, dsState,
                   hostCreated, createdID>>

accountResource_Update ==
    /\ block = "account" /\ configured = "ok" /\ accountState.present
    /\ lastOp' = "AccountUpdate"
    /\ \E plan \in AccountPlans : lastIn' = plan
    /\ wire' = << >> /\ tokenReads' = {} /\ lastResp' = NoResp /\ diags' = << >>
    /\ UNCHANGED <<pc, inflight, block, configured, client, hostState, accountState, dsState,
                   hostCreated, createdID>>

accountResource_DeleteRemote ==
    /\ block = "account" /\ configured = "ok" /\ accountState.present
    /\ lastOp' = "AccountDelete"
    /\ lastIn' = NoBody
    /\ wire' = <<SharedClient_Do(client, Request("DELETE", AccountURL(client), NoHeader, NoBody))>>
    /\ tokenReads' = {"authTransport"} /\ lastResp' = Answer(StatusNoContent, NoBody) /\ diags' = << >>
    /\ accountState' = NullAccountState
    /\ UNCHANGED <<pc, inflight, block, configured, client, hostState, dsState, hostCreated, createdID>>

accountResource_Delete ==
    /\ block = "account" /\ configured = "ok" /\ accountState.present
    /\ lastOp' = "AccountDelete"
    /\ lastIn' = NoBody
    /\ wire' = << >> /\ tokenReads' = {} /\ lastResp' = NoResp /\ diags' = << >>
    /\ accountState' = NullAccountState
    /\ UNCHANGED <<pc, inflight, block, configured, client, hostState, dsState, hostCreated, createdID>>

----------------------------------------------------------------------------
(* Host suggestions data source (HostSuggestionsDataSource.Read) *)

\* The filters in the order Read tests them; the last two are Int64.
FilterOrder ==
    <<"id", "name", "address", "is_active", "type", "category", "platform", "is_gateway",
      "exclude_platform", "domain", "protocols", "domain_enabled", "ping_enabled",
      "gather_facts_enabled", "change_secret_enabled", "push_account_enabled",
      "verify_account_enabled", "gather_accounts_enabled", "search", "order",
      "limit", "offset">>

IntFilters == {"limit", "offset"}
FilterNames == {FilterOrder[i] : i \in 1..Len(FilterOrder)}

\* The same keys in the byte order url.Values.Encode sorts them into.
SortedKeys ==
    <<"address", "category", "change_secret_enabled", "domain", "domain_enabled",
      "exclude_platform", "gather_accounts_enabled", "gather_facts_enabled", "id",
      "is_active", "is_gateway", "limit", "name", "offset", "order", "ping_enabled",
      "platform", "protocols", "push_account_enabled", "search", "type",
      "verify_account_enabled">>

\* A filter value: text is a sequence of symbols (SP is the space character).
FNull == [s |-> "null", v |-> << >>, n |-> 0]
FStr(q) == [s |-> "known", v |-> q, n |-> 0]
FInt(x) == [s |-> "known", v |-> << >>, n |-> x]

StringFilterValues == {FStr(<<"web", "SP", "db">>)}
IntFilterValues == {FInt(50)}
FilterValues(name) == IF name \in IntFilters THEN IntFilterValues ELSE StringFilterValues

NoFilters == [f \in FilterNames |-> FNull]

FilterConfigs ==
    {NoFilters}
    \cup UNION {{[NoFilters EXCEPT ![f] = x] : x \in FilterValues(f)} : f \in FilterNames}
    \cup {[NoFilters EXCEPT !["name"] = FStr(<< >>)], [NoFilters EXCEPT !["offset"] = FInt(0)],
          [NoFilters EXCEPT !["search"] = FStr(<<"a", "AMP", "b", "EQ", "PLUS">>)]}
    \cup {[NoFilters EXCEPT !["name"] = FStr(<<"web">>), !["limit"] = FInt(50),
                            !["address"] = FStr(<< >>)]}
    \cup {[f \in FilterNames |-> IF f \in IntFilters THEN FInt(50) ELSE FStr(<<"web", "SP", "db">>)]}

\* fmt.Sprintf("%d", n) for n >= 0: the decimal digits
DigitText(d) ==
    CASE d = 0 -> "0" [] d = 1 -> "1" [] d = 2 -> "2" [] d = 3 -> "3" [] d = 4 -> "4"
      [] d = 5 -> "5" [] d = 6 -> "6" [] d = 7 -> "7" [] d = 8 -> "8" [] d = 9 -> "9"

RECURSIVE FormatInt(_)
FormatInt(n) == IF n < 10 THEN <<DigitText(n)>> ELSE Append(FormatInt(n \div 10), DigitText(n % 10))

\* url.QueryEscape: the space becomes "+", reserved characters (PLUS, AMP and
\* EQ stand for "+", "&" and "=") their percent-encoding
EscapeSymbol(c) ==
    CASE c = "SP" -> "+" [] c = "PLUS" -> "%2B" [] c = "AMP" -> "%26" [] c = "EQ" -> "%3D"
      [] OTHER -> c
QueryEscape(q) == [i \in 1..Len(q) |-> EscapeSymbol(q[i])]

\* The value queryParams.Add receives for a filter
ParamValue(name, x) == IF name \in IntFilters THEN FormatInt(x.n) ELSE x.v

\* queryParams after the if-chain, then Encode(): key=value pairs, sorted by key,
\* values escaped.
QueryParamsAll(cfg) == FilterNames

QueryParams(cfg) == {f \in FilterNames : ~IsNull(cfg[f])}

RECURSIVE EncodeFrom(_, _, _)
EncodeFrom(cfg, params, i) ==
    IF i > Len(SortedKeys) THEN << >>
    ELSE (IF SortedKeys[i] \in params
          THEN <<[key |-> SortedKeys[i],
                  value |-> QueryEscape(ParamValue(SortedKeys[i], cfg[SortedKeys[i]]))]>>
          ELSE << >>)
         \o EncodeFrom(cfg, params, i + 1)

Encode(cfg) == EncodeFrom(cfg, QueryParams(cfg), 1)

SuggestionsRequest(c, cfg) ==
    Request("GET", <<c.Transport.BaseURL, "/api/v1/assets/hosts/suggestions/", "?", Encode(cfg)>>,
            NoHeader, NoBody)

SuggestionItems ==
    {ItemObject([NoFields EXCEPT !["id"] = JStr("h-1"), !["name"] = JStr("web-1")]),
     ItemObject([NoFields EXCEPT !["id"] = JStr("h-2")]),
     ItemObject([NoFields EXCEPT !["id"] = JNum, !["name"] = JStr("web-3")])}

SuggestionsAnswers ==
    {NetErr, Answer(StatusOK, BodyInvalid), Answer(StatusOK, BodyNull),
     Answer(StatusOK, BodyObject(NoFields)), Answer(StatusOK, BodyArray(<<ItemNull>>)),
     Answer(StatusOK, BodyArray(<<ItemString>>))}
    \cup {Answer(StatusOK, BodyArray(q)) : q \in SeqsUpTo(SuggestionItems, MaxItems)}
    \cup {Answer(st, BodyArray(<< >>)) : st \in Statuses \ {StatusOK}}

\* The unfiltered and the name-only query meet every answer, the others a few.
SuggestionsAnswersFor(cfg) ==
    IF cfg = NoFilters \/ cfg = [NoFilters EXCEPT !["name"] = FStr(<<"web", "SP", "db">>)]
    THEN SuggestionsAnswers
    ELSE {Answer(StatusOK, BodyArray(<<ItemObject([NoFields EXCEPT !["id"] = JStr("h-1"),
                                                                   !["name"] = JStr("web-1")])>>)),
          Answer(404, BodyArray(<< >>))}

\* A string field of the struct the elements decode into: absent or null keeps
\* the zero value, a string sets it, any other JSON type is a decode error.
StructStringOK(o, key) == o[key].t \in {"absent", "null", "string"}
StructString(o, key) == IF o[key].t = "string" THEN o[key].v ELSE ""

\* Decode(&apiResponse) with apiResponse []struct{ ID, Name string }
DecodeSuggestions(body) ==
    IF body.k = "null" THEN [ok |-> TRUE, rows |-> << >>]
    ELSE IF /\ body.k = "array"
            /\ \A i \in 1..Len(body.items) :
                 /\ body.items[i].k \in {"object", "null"}
                 /\ StructStringOK(body.items[i].obj, "id")
                 /\ StructStringOK(body.items[i].obj, "name")
    THEN [ok |-> TRUE,
          rows |-> [i \in 1..Len(body.items) |->
                      [ID |-> StructString(body.items[i].obj, "id"),
                       Name |-> StructString(body.items[i].obj, "name")]]]
    ELSE [ok |-> FALSE, rows |-> << >>]

HostModelSwapped(row) == [ID |-> TStr(row.Name), Name |-> TStr(row.ID)]

HostModel(row) == [ID |-> TStr(row.ID), Name |-> TStr(row.Name)]

NoDsState == [written |-> FALSE, filters |-> NoFilters, Results |-> << >>,
              TotalCount |-> I64Null, Next |-> TNull, Previous |-> TNull]

SuggestionsOutcome(cfg, resp) ==
    IF resp.err
    THEN [diags |-> <<Err("Failed to send HTTP request")>>, state |-> NoDsState]
    ELSE IF resp.status # StatusOK
    THEN [diags |-> <<Diag("Unexpected HTTP response status", resp.status, NoBody)>>,
          state |-> NoDsState]
    ELSE LET d == DecodeSuggestions(resp.body) IN
         IF ~d.ok
         THEN [diags |-> <<Err("Failed to decode JSON response")>>, state |-> NoDsState]
         ELSE [diags |-> << >>,
               state |-> [written |-> TRUE, filters |-> cfg,
                          Results |-> [i \in 1..Len(d.rows) |-> HostModel(d.rows[i])],
                          TotalCount |-> I64(Len(d.rows)),
                          Next |-> TNull, Previous |-> TNull]]

HostSuggestionsDataSource_Read ==
    /\ block = "host_suggestions"
    /\ configured = "ok"
    /\ \E cfg \in FilterConfigs : \E resp \in SuggestionsAnswersFor(cfg) :
         LET out == SuggestionsOutcome(cfg, resp) IN
         /\ lastOp' = "Query"
         /\ lastIn' = cfg
         /\ wire' = <<SharedClient_Do(client, SuggestionsRequest(client, cfg))>>
         /\ tokenReads' = {"authTransport"}
         /\ lastResp' = resp
         /\ diags' = out.diags
         /\ dsState' = out.state
    /\ UNCHANGED <<pc, inflight, block, configured, client, hostState, accountState, hostCreated, createdID>>

----------------------------------------------------------------------------
(* The provider as a whole *)

Blocks == {"asset_host", "account", "host_suggestions"}

Init ==
    /\ block \in Blocks
    /\ configured = "no"
    /\ client = NilClient
    /\ hostState = NullHostState
    /\ accountState = NullAccountState
    /\ dsState = NoDsState
    /\ lastOp = "none"
    /\ lastIn = NoBody
    /\ lastResp = NoResp
    /\ diags = << >>
    /\ wire = << >>
    /\ tokenReads = {}
    /\ hostCreated = FALSE
    /\ createdID = TNull
    /\ pc = Idle
    /\ inflight = NoRequests

Next ==
    \/ JumpServerProvider_Configure
    \/ assetHostResource_Create
    \/ assetHostResource_Read
    \/ assetHostResource_Update
    \/ assetHostResource_Delete
    \/ accountResource_Create
    \/ accountResource_Read
    \/ accountResource_Update
    \/ accountResource_Delete
    \/ HostSuggestionsDataSource_Read

Spec == Init /\ [][Next]_vars

----------------------------------------------------------------------------
(* The transport on its own: RoundTrip applied to an arbitrary request *)

RoundTripRequests ==
    {Request(m, <<"https://js.example.com", "/api/v1/assets/hosts/">>,
             [NoHeader EXCEPT !["Authorization"] = a], b) :
        m \in {"GET", "POST", "DELETE"},
        a \in {<< >>, <<Bearer("tok-A")>>, <<Bearer("stale")>>, <<<<"Basic ", "dXNlcg==">>>>,
               <<Bearer("stale"), Bearer("tok-A")>>},
        b \in {NoBody, [k |-> "text", text |-> <<"X">>]}}

InitRT ==
    /\ block = "asset_host"
    /\ configured = "ok"
    /\ client \in {NewClient(tk, b) : tk \in Tokens \cup {""}, b \in BaseURLs}
    /\ hostState = NullHostState
    /\ accountState = NullAccountState
    /\ dsState = NoDsState
    /\ lastOp = "none"
    /\ lastIn \in RoundTripRequests
    /\ lastResp = NoResp
    /\ diags = << >>
    /\ wire = << >>
    /\ tokenReads = {}
    /\ hostCreated = FALSE
    /\ createdID = TNull
    /\ pc = Idle
    /\ inflight = NoRequests

\* t.RoundTrip(req) for the request in lastIn
RoundTripCall ==
    /\ lastOp = "none"
    /\ lastOp' = "RoundTrip"
    /\ wire' = <<authTransport_RoundTrip(client.Transport, lastIn)>>
    /\ tokenReads' = {"authTransport"}
    /\ UNCHANGED <<pc, inflight, block, configured, client, hostState, accountState, dsState, lastIn,
                   lastResp, diags, hostCreated, createdID>>

NextRT == RoundTripCall

SpecRT == InitRT /\ [][NextRT]_vars

----------------------------------------------------------------------------
(* Instances served concurrently: the runtime calls lifecycle methods of
   different instances from different goroutines; each call builds its
   request, sends it and returns, and the calls interleave freely.  The only
   object the calls share is the client with its authTransport. *)

ConcurrentConfigs ==
    {[BaseURL |-> TStr(b), Username |-> TStr("admin"), Password |-> TStr("secret"),
      Token |-> TNull] : b \in BaseURLs}
NoEnvironment == [base |-> "", user |-> "", pass |-> ""]
TokenAnswers == {Answer(StatusOK, BodyObject([NoFields EXCEPT !["token"] = JStr(tk)])) : tk \in Tokens}

\* The states a successful Configure leaves behind.
InitCC ==
    \E data \in ConcurrentConfigs, resp \in TokenAnswers :
        /\ block = "all"
        /\ configured = "ok"
        /\ client = NewClient(getToken(resp).token, ValueString(data.BaseURL))
        /\ hostState = NullHostState
        /\ accountState = NullAccountState
        /\ dsState = NoDsState
        /\ lastOp = "Configure"
        /\ lastIn = [data |-> data, env |-> NoEnvironment]
        /\ lastResp = resp
        /\ diags = << >>
        /\ wire = <<getTokenRequest(ValueString(data.BaseURL), ValueString(data.Username),
                                    ValueString(data.Password))>>
        /\ tokenReads = {}
        /\ hostCreated = FALSE
        /\ createdID = TNull
        /\ pc = Idle
        /\ inflight = NoRequests

StoredHost == HostStateOf([ScenarioPlan EXCEPT !.ID = TStr("h-1")])
OneAssetPlan ==
    [Name |-> "ops", Username |-> "root", Privileged |-> FALSE, Is_active |-> TRUE,
     Assets |-> ListOf(<<AStr(<<"U">>)>>)]

\* The requests a call of instance i may build, reading the shared client.
RequestsOf(i, c) ==
    CASE KindOf(i) = "asset_host" ->
            {HostCreateRequest(c, ScenarioPlan), HostReadRequest(c, StoredHost),
             HostDeleteRequest(c, ValueString(StoredHost.ID))}
      [] KindOf(i) = "account" ->
            {AccountCreateRequest(c, OneAssetPlan, ValidateAssets(Elements(OneAssetPlan.Assets)).valid)}
      [] OTHER ->
            {SuggestionsRequest(c, cfg) :
                cfg \in {NoFilters, [NoFilters EXCEPT !["name"] = FStr(<<"web", "SP", "db">>)]}}

\* http.NewRequestWithContext and the Header.Set calls of the method itself
Instance_NewRequest(i) ==
    /\ pc[i] = "idle"
    /\ \E r \in RequestsOf(i, client) : inflight' = [inflight EXCEPT ![i] = r]
    /\ pc' = [pc EXCEPT ![i] = "built"]
    /\ UNCHANGED <<block, configured, client, hostState, accountState, dsState, lastOp, lastIn,
                   lastResp, diags, wire, tokenReads, hostCreated, createdID>>

\* client.Do: host calls through their own http.Client, the others through
\* the shared one, whose RoundTrip reads t.Token.
Instance_DoRotating(i) ==
    /\ pc[i] = "built"
    /\ inflight' = [inflight EXCEPT ![i] = IF KindOf(i) = "asset_host" THEN FreshClient_Do(@)
                                 ELSE SharedClient_Do(client, @)]
    /\ client' = [client EXCEPT !.Transport.Token = "rotated"]
    /\ pc' = [pc EXCEPT ![i] = "sent"]
    /\ UNCHANGED <<block, configured, hostState, accountState, dsState, lastOp, lastIn,
                   lastResp, diags, wire, tokenReads, hostCreated, createdID>>

Instance_Do(i) ==
    /\ pc[i] = "built"
    /\ inflight' = [inflight EXCEPT ![i] = IF KindOf(i) = "asset_host" THEN FreshClient_Do(@)
                                 ELSE SharedClient_Do(client, @)]
    /\ pc' = [pc EXCEPT ![i] = "sent"]
    /\ UNCHANGED <<block, configured, client, hostState, accountState, dsState, lastOp, lastIn,
                   lastResp, diags, wire, tokenReads, hostCreated, createdID>>

\* The answer arrives and the method returns.
Instance_Return(i) ==
    /\ pc[i] = "sent"
    /\ inflight' = [inflight EXCEPT ![i] = NoRequest]
    /\ pc' = [pc EXCEPT ![i] = "idle"]
    /\ UNCHANGED <<block, configured, client, hostState, accountState, dsState, lastOp, lastIn,
                   lastResp, diags, wire, tokenReads, hostCreated, createdID>>

NextCC == \E i \in Instances : Instance_NewRequest(i) \/ Instance_Do(i) \/ Instance_Return(i)

SpecCC == InitCC /\ [][NextCC]_vars

----------------------------------------------------------------------------
(* Claims *)

\* The stored host state holds an identifier: it exists and its ID is a
\* non-empty string.
HostHasIdentifier == hostState.present /\ ValueString(hostState.ID) # ""

\* C1: the stored host state holds an identifier if and only if some Create
\* has succeeded and no Delete has succeeded since.
C1_IdentifierIffCreated == HostHasIdentifier <=> hostCreated

\* The answer of the last call is a 201 whose body is an object with a string id.
Answered201WithID ==
    /\ ~lastResp.err
    /\ lastResp.status = 201
    /\ lastResp.body.k = "object"
    /\ lastResp.body.obj["id"].t = "string"

\* C2: Host Create answered by a 201 whose JSON object has a string id writes
\* the planned attributes with the identifier set to that id, without error.
C2_CreateStoresResponseID ==
    (lastOp = "HostCreate" /\ Answered201WithID)
        => /\ diags = << >>
           /\ hostState.present
           /\ hostState.ID = TStr(lastResp.body.obj["id"].v)
           /\ hostState.Name = lastIn.Name
           /\ hostState.IP = lastIn.IP
           /\ hostState.Platform = lastIn.Platform
           /\ hostState.NodesDisplay = lastIn.NodesDisplay
           /\ hostState.Protocols = lastIn.Protocols

C2_Witness ==
    /\ lastOp = "HostCreate"
    /\ Answered201WithID
    /\ lastResp.body.obj["id"].v = "h-2"
    /\ hostState.ID = TStr("h-2")
    /\ Len(lastIn.Protocols.elems) = 2

\* C3: Host Create answered by any status other than 201 reports one error
\* carrying that status and the body, writes no state (the host stays absent,
\* without identifier), and Create can be called again.
C3_CreateNon201IsError ==
    (lastOp = "HostCreate" /\ ~lastResp.err /\ lastResp.status # 201)
        => /\ Len(diags) = 1
           /\ diags[1].status = lastResp.status
           /\ diags[1].body = lastResp.body
           /\ hostState = NullHostState
           /\ ~HostHasIdentifier
           /\ ENABLED assetHostResource_Create

C3_Witness ==
    /\ lastOp = "HostCreate"
    /\ lastResp.status = 200
    /\ lastResp.body.obj["id"].t = "string"
    /\ HasError(diags)
    /\ ~hostState.present

\* C4: Host Create answered by a 201 whose body is not decodable JSON or has
\* no string id ends with an error diagnostic and writes no state.
C4_CreateBadBodyIsError ==
    (lastOp = "HostCreate" /\ ~lastResp.err /\ lastResp.status = 201 /\ ~Answered201WithID)
        => /\ Len(diags) = 1
           /\ diags[1].summary \in {"Response Decode Error", "API Error"}
           /\ (diags[1].summary = "Response Decode Error") <=> (lastResp.body.k \in {"invalid", "array"})
           /\ hostState = NullHostState

C4_Witness ==
    /\ lastOp = "HostCreate"
    /\ lastResp.status = 201
    /\ lastResp.body.k = "object"
    /\ lastResp.body.obj["id"].t = "number"
    /\ diags = <<Err("API Error")>>
    /\ ~hostState.present

\* C5: after a successful Create, a Read leaves an identifier that is
\* non-empty and equal to the one Create stored.
C5_ReadKeepsNonEmptyID ==
    (lastOp = "HostRead" /\ hostCreated)
        => /\ ValueString(hostState.ID) # ""
           /\ hostState.ID = createdID

\* C6: Host Delete with a known identifier: a 200 or 204 answer removes the
\* stored state; any other status reports an error and leaves the stored
\* state, identifier included, as it was, so Delete can be called again.
C6_DeleteOutcome ==
    [][(lastOp' = "HostDelete" /\ ValueString(hostState.ID) # "" /\ ~lastResp'.err)
        => IF lastResp'.status \in {200, 204}
           THEN hostState' = NullHostState /\ diags' = << >>
           ELSE /\ diags' = <<Diag("API Error", lastResp'.status, lastResp'.body)>>
                /\ hostState' = hostState
                /\ hostState'.present
                /\ ValueString(hostState'.ID) # ""]_vars

C6_Witness ==
    /\ lastOp = "HostDelete"
    /\ lastResp.status = 404
    /\ HasError(diags)
    /\ HostHasIdentifier

\* An assets element fails UUID-syntax parsing: it is null or its text is not a UUID.
IsUuidText(q) == q = <<"U">>
ElementFailsParsing(a) == a.s = "null" \/ ~IsUuidText(a.v)

ValidationFailed == Len(diags) = 1 /\ diags[1].summary = "Invalid UUID"

CurlyQuotes == {"LQ", "RQ"}
Unquoted(a) == TrimRight(TrimLeft(a.v, CurlyQuotes), CurlyQuotes)

C8_ExactlyOneBearerHeader ==
    lastOp = "RoundTrip"
        => /\ Len(wire) = 1
           /\ wire[1].header["Authorization"] = <<Bearer(client.Transport.Token)>>
           /\ wire[1].via = <<"authTransport", "DefaultTransport">>
           /\ wire[1].method = lastIn.method
           /\ wire[1].body = lastIn.body
           /\ wire[1].url = lastIn.url

C8_Witness ==
    /\ lastOp = "RoundTrip"
    /\ lastIn.method = "DELETE"
    /\ lastIn.header["Authorization"] = <<Bearer("stale"), Bearer("tok-A")>>
    /\ client.Transport.Token = "tok-B"
    /\ wire[1].header["Authorization"] = <<Bearer("tok-B")>>

ApiCalls == {"HostCreate", "HostRead", "HostDelete", "AccountCreate", "Query"}

\* C9: every request of Host Create, Read, Delete, Account Create and the
\* Query carries Authorization: Bearer <token> with the token the
\* authentication answer gave at configuration; the token request carries none.
C9_EveryApiRequestCarriesBearer ==
    /\ (lastOp = "Configure" /\ configured = "ok")
          => client.Transport.Token = lastResp.body.obj["token"].v
    /\ \A i \in 1..Len(wire) :
          IF lastOp = "Configure"
          THEN wire[i].header["Authorization"] = << >>
          ELSE lastOp \in ApiCalls
               /\ wire[i].header["Authorization"] = <<Bearer(client.Transport.Token)>>

C9_Witness ==
    /\ lastOp = "HostDelete"
    /\ Len(wire) = 1
    /\ client.Transport.Token = "tok-B"
    /\ wire[1].header["Authorization"] = <<Bearer("tok-B")>>

\* C10: every request of the resource controllers and of the Query passes
\* through the shared authTransport, and only the transport reads the token.
C10_AllTrafficThroughTransport ==
    lastOp \in ApiCalls
        => /\ \A i \in 1..Len(wire) : wire[i].via = <<"authTransport", "DefaultTransport">>
           /\ tokenReads \subseteq {"authTransport"}

\* The text a query parameter stands for: url.QueryUnescape of its value.
UnescapeSymbol(c) ==
    CASE c = "+" -> "SP" [] c = "%2B" -> "PLUS" [] c = "%26" -> "AMP" [] c = "%3D" -> "EQ"
      [] OTHER -> c
Unescaped(q) == [i \in 1..Len(q) |-> UnescapeSymbol(q[i])]

\* The number a decimal text stands for.
DigitValue(t) == CHOOSE d \in 0..9 : DigitText(d) = t
RECURSIVE DecimalValue(_)
DecimalValue(q) ==
    IF q = << >> THEN 0 ELSE 10 * DecimalValue(SubSeq(q, 1, Len(q) - 1)) + DigitValue(q[Len(q)])

\* The query string of the request the Query sent, as its key=value pairs.
SentQuery == wire[1].url[4]

\* The filters of a configuration that have a value.
PresentFilters(cfg) == {f \in FilterNames : cfg[f].s # "null"}

\* C11: the Query emits one parameter for each filter that has a value and none
\* for the others, each parameter standing for the value supplied (text for
\* the string filters, the decimal number for limit and offset); with only
\* name populated the query string is the single parameter name=<value>.
C11_ParamsAreThePresentFilters ==
    lastOp = "Query"
        => /\ Len(wire) = 1
           /\ {SentQuery[i].key : i \in 1..Len(SentQuery)} = PresentFilters(lastIn)
           /\ Len(SentQuery) = Cardinality(PresentFilters(lastIn))
           /\ \A i \in 1..Len(SentQuery) :
                LET f == SentQuery[i].key IN
                IF f \in {"limit", "offset"}
                THEN DecimalValue(Unescaped(SentQuery[i].value)) = lastIn[f].n
                ELSE Unescaped(SentQuery[i].value) = lastIn[f].v
           /\ PresentFilters(lastIn) = {"name"}
                => /\ Len(SentQuery) = 1
                   /\ SentQuery[1].key = "name"
                   /\ Unescaped(SentQuery[1].value) = lastIn["name"].v

C11_Witness ==
    /\ lastOp = "Query"
    /\ PresentFilters(lastIn) = {"name"}
    /\ lastIn["name"].v = <<"web", "SP", "db">>
    /\ SentQuery = <<[key |-> "name", value |-> <<"web", "+", "db">>]>>

\* The answer to the token request is a JSON object whose token is a string.
AnsweredWithToken ==
    /\ ~lastResp.err
    /\ lastResp.body.k = "object"
    /\ lastResp.body.obj["token"].t = "string"

\* C12: token acquisition sends one POST without Authorization to
\* <base URL>/api/v1/authentication/auth/; it fails if and only if the call
\* errors, the body is not a JSON object, or its token is absent or not a
\* string; otherwise, whatever the status, the token of the answer is the one
\* the client holds.
C12_TokenAcquisition ==
    (lastOp = "Configure" /\ wire # << >>)
        => /\ Len(wire) = 1
           /\ wire[1].method = "POST"
           /\ wire[1].url[2] = "/api/v1/authentication/auth/"
           /\ wire[1].header["Authorization"] = << >>
           /\ wire[1].via = <<"DefaultTransport">>
           /\ (configured = "failed") <=> ~AnsweredWithToken
           /\ configured = "failed"
                => (diags = <<Err("Unable to authenticate with JumpServer API")>> /\ client.nil)
           /\ configured = "ok"
                => (diags = << >> /\ client.Transport.Token = lastResp.body.obj["token"].v)

C12_Witness ==
    /\ lastOp = "Configure"
    /\ AnsweredWithToken
    /\ lastResp.status = 404
    /\ configured = "ok"
    /\ client.Transport.Token = "tok-B"

\* C13: an Update of a host or of an account sends no request, reports no
\* error and leaves the stored state, identifier included, as it was,
\* whatever the plan.
C13_UpdateIsNoOp ==
    [][lastOp' \in {"HostUpdate", "AccountUpdate"}
        => /\ wire' = << >>
           /\ diags' = << >>
           /\ hostState' = hostState
           /\ accountState' = accountState
           /\ lastOp' = "HostUpdate" => (hostState'.present /\ hostState'.ID = hostState.ID)]_vars

C13_Witness ==
    /\ lastOp = "HostUpdate"
    /\ lastIn.NodesDisplay # hostState.NodesDisplay
    /\ lastIn.Protocols # hostState.Protocols
    /\ hostState.ID = TStr("h-1")
    /\ wire = << >>
    /\ diags = << >>

\* The JSON object the claims expect for a planned protocol: name, and port
\* only when the plan gives one.
ExpectedProtocolJSON(p, j) ==
    /\ j.name = p.name.v
    /\ j.hasPort <=> (p.port.s = "known")
    /\ j.hasPort => j.port = p.port.n

\* C14: the body of the Host Create request is an object with is_active true,
\* name, address and platform as planned, nodes_display a JSON array of the
\* planned nodes in their order and protocols a JSON array of the planned
\* protocols in their order.
C14_CreateBodyCarriesPlan ==
    lastOp = "HostCreate"
        => LET b == wire[1].body
               nodes == lastIn.NodesDisplay.elems
               protos == lastIn.Protocols.elems
           IN /\ wire[1].method = "POST"
              /\ b.is_active = TRUE
              /\ b.name = lastIn.Name.v
              /\ b.address = lastIn.IP.v
              /\ b.platform = lastIn.Platform.v
              /\ ~b.nodes_display.nil
              /\ b.nodes_display.items = [i \in 1..Len(nodes) |-> nodes[i].v]
              /\ ~b.protocols.nil
              /\ Len(b.protocols.items) = Len(protos)
              /\ \A i \in 1..Len(protos) : ExpectedProtocolJSON(protos[i], b.protocols.items[i])

\* C15: Account Create posts to the configured base URL followed by
\* /api/v1/accounts/accounts/bulk/.
C15_AccountURLFromBaseURL ==
    (lastOp = "AccountCreate" /\ wire # << >>)
        => /\ wire[1].method = "POST"
           /\ wire[1].url = <<client.Transport.BaseURL, "/api/v1/accounts/accounts/bulk/">>

\* One attribute across a Read answered by the JSON field f: replaced by the
\* string the field holds, kept when the field is absent.
LenientlyMerged(old, new, f) ==
    /\ f.t = "string" => new = TStr(f.v)
    /\ f.t = "absent" => new = old

\* C16: Host Read answered by 200 with a JSON object replaces each of name, ip
\* and platform by the string the response holds for it and keeps the prior
\* value of each one the response leaves out (a field of another type is the
\* case of C18); no Read changes identifier, nodes_display or protocols.
C16_ReadLenientMerge ==
    [][lastOp' = "HostRead"
        => /\ hostState'.ID = hostState.ID
           /\ hostState'.NodesDisplay = hostState.NodesDisplay
           /\ hostState'.Protocols = hostState.Protocols
           /\ (~lastResp'.err /\ lastResp'.status = 200 /\ lastResp'.body.k \in {"object", "null"})
                => LET o == lastResp'.body.obj IN
                   /\ diags' = << >>
                   /\ hostState'.present
                   /\ LenientlyMerged(hostState.Name, hostState'.Name, o["name"])
                   /\ LenientlyMerged(hostState.IP, hostState'.IP, o["ip"])
                   /\ LenientlyMerged(hostState.Platform, hostState'.Platform, o["platform"])]_vars

C16_Witness ==
    /\ lastOp = "HostRead"
    /\ lastResp.status = 200
    /\ lastResp.body.k = "object"
    /\ lastResp.body.obj["name"] = JStr("web-2")
    /\ lastResp.body.obj["ip"] = JAbsent
    /\ hostState.Name = TStr("web-2")
    /\ hostState.IP = TStr("10.0.0.5")
    /\ hostState.Platform = TStr("Linux")

\* C17: Host Read answered by any status other than 200 reports one error
\* carrying the status and the body and leaves the stored state as it was:
\* present, with the same identifier and attributes.
C17_ReadNon200KeepsState ==
    [][(lastOp' = "HostRead" /\ ~lastResp'.err /\ lastResp'.status # 200)
        => /\ diags' = <<Diag("API Error", lastResp'.status, lastResp'.body)>>
           /\ hostState' = hostState
           /\ hostState'.present]_vars

C17_Witness ==
    /\ lastOp = "HostRead"
    /\ lastResp.status = 404
    /\ Len(diags) = 1
    /\ diags[1].status = 404
    /\ hostState.present
    /\ hostState.ID = TStr("h-1")
    /\ hostState.Name = TStr("web-2")

\* The answer holds name, ip or platform with a value that is not a string.
WrongTypedField(o) == \E key \in {"name", "ip", "platform"} : o[key].t \notin {"absent", "string"}

\* C18: Host Read answered by 200 with an object in which name, ip or
\* platform is present but not a string reports a decode error and leaves the
\* stored state as it was.
C18_ReadWrongTypeIsDecodeError ==
    [][(lastOp' = "HostRead" /\ ~lastResp'.err /\ lastResp'.status = 200
           /\ lastResp'.body.k = "object" /\ WrongTypedField(lastResp'.body.obj))
        => /\ HasError(diags')
           /\ hostState' = hostState]_vars

\* Account Create was answered by 200 with a non-empty JSON array.
AnsweredNonEmptyArray ==
    /\ lastOp = "AccountCreate"
    /\ ~lastResp.err
    /\ lastResp.status = 200
    /\ lastResp.body.k = "array"
    /\ Len(lastResp.body.items) > 0

\* The first entry of the answer is an object whose state is "created".
FirstEntryCreated ==
    /\ lastResp.body.items[1].k = "object"
    /\ lastResp.body.items[1].obj["state"] = JStr("created")

AccountCreateSucceeded == diags = << >> /\ accountState = AccountStateOf(lastIn)

\* C19 as stated: Account Create answered by 200 with a non-empty JSON array
\* succeeds, writing the plan as state, if and only if the state of the first
\* entry is "created", whatever the later entries hold.
C19_SucceedsIffFirstEntryCreated ==
    AnsweredNonEmptyArray
        => /\ AccountCreateSucceeded <=> FirstEntryCreated
           /\ ~AccountCreateSucceeded => (HasError(diags) /\ ~accountState.present)

\* Every element of the answer is a JSON object or null.
AllEntriesAreObjects ==
    \A i \in 1..Len(lastResp.body.items) : lastResp.body.items[i].k \in {"object", "null"}

\* C19 amended: Account Create answered by 200 with a non-empty JSON array
\* whose elements are all objects (or null) succeeds, writing the plan as
\* state, if and only if the state of the first entry is "created", whatever
\* the state of the later entries; an array holding an element that is
\* neither an object nor null fails with a decode error.
C19_SucceedsIffFirstOfObjectsCreated ==
    AnsweredNonEmptyArray
        => /\ AllEntriesAreObjects => (AccountCreateSucceeded <=> FirstEntryCreated)
           /\ ~AllEntriesAreObjects => diags = <<Err("Error decoding API response")>>
           /\ ~AccountCreateSucceeded => (HasError(diags) /\ ~accountState.present)

C19_Witness ==
    /\ AnsweredNonEmptyArray
    /\ Len(lastResp.body.items) = 2
    /\ FirstEntryCreated
    /\ lastResp.body.items[2] = Entry(JStr("exists"))
    /\ AccountCreateSucceeded
    /\ accountState.present

\* C20: every protocol of the Host Create body holds name, and holds port
\* only when the planned protocol has a port; a protocol planned without a
\* port is sent without the port key.
C20_PortOmittedWhenNull ==
    lastOp = "HostCreate"
        => LET protos == lastIn.Protocols.elems
               sent == wire[1].body.protocols.items
           IN /\ Len(sent) = Len(protos)
              /\ \A i \in 1..Len(protos) :
                   /\ sent[i].name = protos[i].name.v
                   /\ protos[i].port.s = "known" => (sent[i].hasPort /\ sent[i].port = protos[i].port.n)
                   /\ protos[i].port.s = "null" => ~sent[i].hasPort

\* The Query was answered by 200 with a JSON array.
AnsweredArray ==
    /\ lastOp = "Query"
    /\ ~lastResp.err
    /\ lastResp.status = 200
    /\ lastResp.body.k = "array"

\* The text a result takes from a JSON field: the string it holds, else empty.
FieldText(f) == IF f.t = "string" THEN f.v ELSE ""

\* The (identifier, name) result expected for an element of the array.
ExpectedResult(item) ==
    [ID |-> TStr(FieldText(item.obj["id"])), Name |-> TStr(FieldText(item.obj["name"]))]

\* One result per element in the same order, the count the array's length.
ResultsMirrorArray ==
    /\ diags = << >>
    /\ dsState.written
    /\ Len(dsState.Results) = Len(lastResp.body.items)
    /\ \A i \in 1..Len(lastResp.body.items) :
         dsState.Results[i] = ExpectedResult(lastResp.body.items[i])
    /\ dsState.TotalCount = I64(Len(lastResp.body.items))

\* Every answered Query sent one GET; any status but 200 is an error
\* without result state.
OneGetAndNon200IsError ==
    (lastOp = "Query" /\ ~lastResp.err)
        => /\ Len(wire) = 1
           /\ wire[1].method = "GET"
           /\ lastResp.status # 200
                => /\ diags = <<Diag("Unexpected HTTP response status", lastResp.status, NoBody)>>
                   /\ dsState = NoDsState

WellTypedElement(item) ==
    /\ item.k \in {"object", "null"}
    /\ item.obj["id"].t \in {"absent", "null", "string"}
    /\ item.obj["name"].t \in {"absent", "null", "string"}

AllElementsWellTyped ==
    \A i \in 1..Len(lastResp.body.items) : WellTypedElement(lastResp.body.items[i])

NetworkCalls == ApiCalls \cup {"Configure"}

\* The last call's request failed: no answer, or an answer with an error status.
RequestFailed == wire # << >> /\ (lastResp.err \/ lastResp.status >= 400)

\* C22 as stated: every call sends at most one request, and a network failure
\* or an error status of that request ends the call with an error, the
\* request not being sent again.
C22_OneRequestAndFailureIsError ==
    /\ Len(wire) <= 1
    /\ wire # << >> => lastOp \in NetworkCalls
    /\ RequestFailed => (HasError(diags) /\ Len(wire) = 1)

\* The last call's request failed, where the token exchange fails by its
\* answer holding no string token, whatever the status.
RequestFailedOrNoToken ==
    /\ wire # << >>
    /\ IF lastOp = "Configure" THEN ~AnsweredWithToken
       ELSE lastResp.err \/ lastResp.status >= 400

\* C22 amended: every call sends at most one request; a network failure of
\* that request, an error status of it (for Host Create, Read, Delete, Account
\* Create and the Query) or an answer without a string token (for the token
\* exchange, whose status is not looked at) ends the call with an error, the
\* request not being sent again.
C22_OneRequestAndFailureIsErrorExceptTokenStatus ==
    /\ Len(wire) <= 1
    /\ wire # << >> => lastOp \in NetworkCalls
    /\ RequestFailedOrNoToken => (HasError(diags) /\ Len(wire) = 1)

C22_Witness ==
    /\ lastOp = "HostDelete"
    /\ lastResp.err
    /\ Len(wire) = 1
    /\ diags = <<Err("HTTP Request Error")>>
    /\ hostState.present

\* The credentials the successful Configure set: the token of the exchange's
\* answer and the configured base URL.
ConfiguredToken == lastResp.body.obj["token"].v
ConfiguredBaseURL == lastIn.data.BaseURL.v

\* C23: after a successful Configure, however the calls of the instances
\* interleave, the shared transport keeps the token and base URL Configure
\* set, and every request on the network carries that token.
C23_CredentialsImmutable ==
    /\ ~client.nil
    /\ client.Transport.Token = ConfiguredToken
    /\ client.Transport.BaseURL = ConfiguredBaseURL
    /\ \A i \in Instances :
         pc[i] = "sent" => inflight[i].header["Authorization"] = <<Bearer(ConfiguredToken)>>

C23_Witness ==
    /\ pc["host_a"] = "sent"
    /\ pc["account_a"] = "sent"
    /\ pc["query_a"] = "sent"
    /\ pc["host_b"] = "built"
    /\ inflight["host_a"].method = "DELETE"
    /\ ConfiguredToken = "tok-B"
    /\ \A i \in {"host_a", "account_a", "query_a"} :
         inflight[i].header["Authorization"] = <<Bearer("tok-B")>>

\* The effective value of a connection parameter: the configuration value
\* when one is given, else the environment variable.
Effective(configValue, envValue) == IF configValue.s = "null" THEN envValue ELSE configValue.v

\* The connection parameters whose effective value is empty, by the summary
\* of the error reported for each.
MissingSummaries ==
    (IF Effective(lastIn.data.BaseURL, lastIn.env.base) = ""
     THEN {"Missing JumpServer API Base URL"} ELSE {})
    \cup (IF Effective(lastIn.data.Username, lastIn.env.user) = ""
          THEN {"Missing JumpServer API Username"} ELSE {})
    \cup (IF Effective(lastIn.data.Password, lastIn.env.pass) = ""
          THEN {"Missing JumpServer API Password"} ELSE {})

\* C24: when the effective base URL, username or password is empty, Configure
\* reports one error for each missing parameter, sends no token request and
\* hands out no client; when the token exchange fails it hands out no client
\* either.
C24_ConfigureErrors ==
    lastOp = "Configure"
        => /\ MissingSummaries # {}
                => /\ {diags[i].summary : i \in 1..Len(diags)} = MissingSummaries
                   /\ Len(diags) = Cardinality(MissingSummaries)
                   /\ wire = << >>
                   /\ lastResp = NoResp
                   /\ client.nil
                   /\ configured = "failed"
           /\ (MissingSummaries = {} /\ ~AnsweredWithToken)
                => /\ diags = <<Err("Unable to authenticate with JumpServer API")>>
                   /\ Len(wire) = 1
                   /\ client.nil
                   /\ configured = "failed"
           /\ HasError(diags) <=> client.nil

C24_Witness ==
    /\ lastOp = "Configure"
    /\ lastIn.data.BaseURL = TStr("")
    /\ lastIn.env.base = "https://js.example.com"
    /\ lastIn.data.Password = TNull
    /\ lastIn.env.pass = ""
    /\ lastIn.data.Username = TNull
    /\ lastIn.env.user = "envuser"
    /\ Len(diags) = 2
    /\ wire = << >>
    /\ client.nil

\* C25: Host Delete called with a state whose identifier is empty reports the
\* "Missing ID" error, sends no request and leaves the resource in state.
C25_DeleteEmptyIDIsMissingID ==
    [][(lastOp' = "HostDelete" /\ hostState.present /\ ValueString(hostState.ID) = "")
        => /\ diags' = <<Err("Missing ID")>>
           /\ wire' = << >>
           /\ lastResp' = NoResp
           /\ hostState' = hostState
           /\ hostState'.present]_vars

C25_Witness ==
    /\ lastOp = "HostDelete"
    /\ diags = <<Err("Missing ID")>>
    /\ wire = << >>
    /\ hostState.present
    /\ hostState.ID = TStr("")

\* C26: Account Create answered by 200 with an empty JSON array succeeds: no
\* error is reported and the planned attributes are written to state.
C26_EmptyArrayIsSuccess ==
    (lastOp = "AccountCreate" /\ ~lastResp.err /\ lastResp.status = 200
        /\ lastResp.body.k = "array" /\ lastResp.body.items = << >>)
        => /\ diags = << >>
           /\ accountState.present
           /\ accountState = AccountStateOf(lastIn)

C26_Witness ==
    /\ lastOp = "AccountCreate"
    /\ lastResp.status = 200
    /\ lastResp.body.k = "array"
    /\ lastResp.body.items = << >>
    /\ Len(wire) = 1
    /\ diags = << >>
    /\ accountState.present
    /\ accountState.Assets = lastIn.Assets
    /\ Len(lastIn.Assets.elems) = 1

\* C27: Account Read, Update and Delete send no request and report no error:
\* once an account is in state, no sequence of them contacts the server; Read
\* and Update leave the stored state as it is and Delete drops it locally.
C27_AccountReadDeleteAreLocal ==
    [][lastOp' \in {"AccountRead", "AccountUpdate", "AccountDelete"}
        => /\ accountState.present
           /\ wire' = << >>
           /\ lastResp' = NoResp
           /\ tokenReads' = {}
           /\ diags' = << >>
           /\ lastOp' \in {"AccountRead", "AccountUpdate"} => accountState' = accountState
           /\ lastOp' = "AccountDelete" => ~accountState'.present]_vars

C27_Witness ==
    /\ lastOp = "AccountDelete"
    /\ wire = << >>
    /\ diags = << >>
    /\ ~accountState.present

\* C28: the token input of the provider configuration plays no part: with or
\* without it, Configure needs base URL, username and password, sends the
\* username/password exchange, succeeds exactly when the answer holds a
\* string token, and gives the transport that token.
C28_TokenInputIgnored ==
    lastOp = "Configure"
        => /\ MissingSummaries = {}
                => /\ Len(wire) = 1
                   /\ wire[1].body =
                        [k |-> "credentials",
                         username |-> Effective(lastIn.data.Username, lastIn.env.user),
                         password |-> Effective(lastIn.data.Password, lastIn.env.pass)]
           /\ (configured = "ok") <=> (MissingSummaries = {} /\ AnsweredWithToken)
           /\ configured = "ok"
                => /\ client.Transport.Token = lastResp.body.obj["token"].v
                   /\ client.Transport.Token # lastIn.data.Token.v

C28_Witness ==
    /\ lastOp = "Configure"
    /\ lastIn.data.Token = TStr("cfg-token")
    /\ configured = "ok"
    /\ Len(wire) = 1
    /\ client.Transport.Token = "tok-A"

====
